---------------------------- MODULE Spec2Model ----------------------------
(***************************************************************************)
(* Budyko-Sellers energy balance model, function budyko_sellers_time_dep   *)
(* of karina/Untitled.ipynb ("simulate"), and the notebook cell that calls *)
(* it.                                                                     *)
(*                                                                         *)
(* Arithmetic.  The program computes in numpy float64.  Here a number is a *)
(* binary floating-point value with MantBits significant bits and an       *)
(* exponent range of MaxExp, every arithmetic operation rounding its exact *)
(* result to nearest (ties to even), overflowing to infinity and           *)
(* underflowing to zero, as IEEE arithmetic does; float64 is the instance  *)
(* MantBits = 53, MaxExp = 1023, which TLC's 32-bit integers cannot hold.  *)
(* The transcendental functions are kept symbolic: np.log yields the       *)
(* logarithm of its (rounded) argument as a LogVal, np.exp of a LogVal     *)
(* yields the rounded exponential, np.arcsin yields an Angle and np.sin of *)
(* an Angle in radians yields the number it is the arcsine of.  A control  *)
(* entry is a multiple k*ln(2) of ln 2.                                    *)
(***************************************************************************)
EXTENDS Integers, Sequences, FiniteSets, TLC

(***************************************************************************)
(* Bounds of the model.                                                    *)
(***************************************************************************)
MantBits == 6
MaxExp == 126
MaxN == 4
MaxSteps == 2
MaxCalls == 3
MaxIter == 3

(***************************************************************************)
(* Floating-point numbers: c = "fin" is the value m * 2^e with m = 0 or    *)
(* 2^(MantBits-1) <= |m| < 2^MantBits; "inf" carries its sign in m.        *)
(***************************************************************************)
Zero == [c |-> "fin", m |-> 0, e |-> 0]
NaN == [c |-> "nan", m |-> 0, e |-> 0]
Inf(sign) == [c |-> "inf", m |-> sign, e |-> 0]

Abs(n) == IF n < 0 THEN -n ELSE n
Sgn(n) == IF n < 0 THEN -1 ELSE IF n > 0 THEN 1 ELSE 0

RECURSIVE BitLen(_)
BitLen(n) == IF n = 0 THEN 0 ELSE 1 + BitLen(n \div 2)

\* A normalised mantissa and exponent, checked against the exponent range.
Fin(sign, m, e) ==
  IF e + MantBits - 1 > MaxExp THEN Inf(sign)
  ELSE IF e + MantBits - 1 < -MaxExp THEN Zero
  ELSE [c |-> "fin", m |-> sign * m, e |-> e]

\* sign * n * 2^e (plus a nonzero tail below n's last bit when sticky),
\* rounded to nearest, ties to even.
Pack(sign, n, e, sticky) ==
  LET L == BitLen(n) IN
  IF n = 0 THEN Zero
  ELSE IF L <= MantBits THEN Fin(sign, n * 2^(MantBits - L), e - (MantBits - L))
  ELSE LET sh == L - MantBits
           q == n \div 2^sh
           r == n % 2^sh
           half == 2^(sh - 1)
           up == r > half \/ (r = half /\ (sticky \/ q % 2 = 1))
           q2 == IF up THEN q + 1 ELSE q
       IN IF q2 = 2^MantBits THEN Fin(sign, 2^(MantBits - 1), e + sh + 1)
          ELSE Fin(sign, q2, e + sh)

\* Long division: the quotient q + r/d, scaled by 2^e, grown bit by bit until
\* it has the bits rounding needs.
RECURSIVE Grow(_, _, _, _, _)
Grow(sign, q, r, d, e) ==
  IF q >= 2^(MantBits + 1) THEN Pack(sign, q, e, r # 0)
  ELSE IF r = 0 THEN Pack(sign, q, e, FALSE)
  ELSE Grow(sign, 2 * q + (IF 2 * r >= d THEN 1 ELSE 0),
            IF 2 * r >= d THEN 2 * r - d ELSE 2 * r, d, e - 1)

\* The literal n/d, correctly rounded.
FromRat(n, d) == Grow(Sgn(n), Abs(n) \div d, Abs(n) % d, d, 0)
FromInt(n) == FromRat(n, 1)
One == FromInt(1)

\* f * 2^k, exact but for the exponent range.
Scale2(f, k) == IF f.c = "fin" /\ f.m # 0 THEN Fin(Sgn(f.m), Abs(f.m), f.e + k) ELSE f

FNeg(a) == IF a.c = "nan" THEN a ELSE [a EXCEPT !.m = -a.m]

FAdd(a, b) ==
  IF a.c = "nan" \/ b.c = "nan" THEN NaN
  ELSE IF a.c = "inf" /\ b.c = "inf" THEN (IF a.m = b.m THEN a ELSE NaN)
  ELSE IF a.c = "inf" THEN a
  ELSE IF b.c = "inf" THEN b
  ELSE IF a.m = 0 THEN b
  ELSE IF b.m = 0 THEN a
  ELSE LET hi == IF a.e >= b.e THEN a ELSE b
           lo == IF a.e >= b.e THEN b ELSE a
           d == hi.e - lo.e
       IN IF d > MantBits + 2 THEN hi
          ELSE LET s == hi.m * 2^d + lo.m
               IN Pack(Sgn(s), Abs(s), lo.e, FALSE)

FSub(a, b) == FAdd(a, FNeg(b))

FMul(a, b) ==
  IF a.c = "nan" \/ b.c = "nan" THEN NaN
  ELSE IF a.c = "inf" \/ b.c = "inf"
       THEN (IF a.m = 0 \/ b.m = 0 THEN NaN ELSE Inf(Sgn(a.m) * Sgn(b.m)))
  ELSE Pack(Sgn(a.m) * Sgn(b.m), Abs(a.m) * Abs(b.m), a.e + b.e, FALSE)

FDiv(a, b) ==
  IF a.c = "nan" \/ b.c = "nan" THEN NaN
  ELSE IF a.c = "inf" THEN (IF b.c = "inf" THEN NaN
                            ELSE Inf(a.m * (IF b.m < 0 THEN -1 ELSE 1)))
  ELSE IF b.c = "inf" THEN Zero
  ELSE IF b.m = 0 THEN (IF a.m = 0 THEN NaN ELSE Inf(Sgn(a.m)))
  ELSE IF a.m = 0 THEN Zero
  ELSE Grow(Sgn(a.m) * Sgn(b.m), Abs(a.m) \div Abs(b.m), Abs(a.m) % Abs(b.m),
            Abs(b.m), a.e - b.e)

\* x**2 and x**4, each the exact power rounded once.
FSq(a) == FMul(a, a)
FPow4(a) ==
  IF a.c = "nan" THEN NaN
  ELSE IF a.c = "inf" THEN Inf(1)
  ELSE Pack(1, Abs(a.m) * Abs(a.m) * Abs(a.m) * Abs(a.m), 4 * a.e, FALSE)

\* a < b, for numbers that are not NaN.
FLess(a, b) ==
  LET key(x) == IF x.c = "inf" THEN <<x.m * 2, 0, 0>>
                ELSE <<Sgn(x.m), x.e, x.m>>
      ka == key(a)
      kb == key(b)
  IN /\ a.c # "nan" /\ b.c # "nan"
     /\ \/ ka[1] < kb[1]
        \/ /\ ka[1] = kb[1] /\ ka[1] = 1
           /\ (ka[2] < kb[2] \/ (ka[2] = kb[2] /\ ka[3] < kb[3]))
        \/ /\ ka[1] = kb[1] /\ ka[1] = -1
           /\ (ka[2] > kb[2] \/ (ka[2] = kb[2] /\ ka[3] < kb[3]))

(***************************************************************************)
(* Symbolic values.  LogVal [arg, k, neg] is ln(arg) + k*ln(2), negated    *)
(* when neg.  Angle [asin, unit] is arcsin(asin) held in radians or in     *)
(* degrees.                                                                *)
(***************************************************************************)
Ctl(k) == [arg |-> One, k |-> k, neg |-> FALSE]
LogOf(x) == [arg |-> x, k |-> 0, neg |-> FALSE]
LAdd(a, b) == [arg |-> FMul(a.arg, b.arg), k |-> a.k + b.k, neg |-> a.neg]
LNeg(a) == [a EXCEPT !.neg = ~a.neg]
ExpOf(a) == IF a.neg THEN Scale2(FDiv(One, a.arg), -a.k) ELSE Scale2(a.arg, a.k)

ArcSin(x) == [asin |-> x, unit |-> "rad"]
Degrees(a) == IF a.unit = "rad" THEN [a EXCEPT !.unit = "deg"] ELSE [asin |-> NaN, unit |-> "deg"]
Radians(a) == IF a.unit = "deg" THEN [a EXCEPT !.unit = "rad"] ELSE [asin |-> NaN, unit |-> "rad"]
Sin(a) == IF a.unit = "rad" THEN a.asin ELSE NaN

(***************************************************************************)
(* The program's constants.                                                *)
(***************************************************************************)
SIGMA == Scale2(FromRat(567, 9765625), -10)      \* 5.67e-8 = 567 / (5^10 * 2^10)
EPSILON == FromRat(63, 100)
DIFF == FromRat(6, 10)
Half == FromRat(1, 2)

VARIABLES
  pc,       \* where the call stands
  calls,    \* calls made so far
  args,     \* the arguments as they were when the call was made
  N, XXS, insol, DT,                \* the arguments; XXS and insol are the caller's arrays
  Xedges, X, DX, LAT,               \* the grid
  dalpha, demiss,                   \* the two blocks of XXS
  T,                                \* the temperature state
  t,                                \* forcing values taken from insol so far
  ALPHA, emiss, FIN, FOUT, FDIFF,   \* the quantities of the current step
  i,                                \* the band the diffusion loop is at (1..N)
  steps,                            \* Euler updates applied in this call
  ret,                              \* the caller's T_final: the last profile returned
  err,                              \* the exception the call ended with
  hist,                             \* the finished calls in order: arguments and outcome
  est                               \* the estimator (estimate)

inputs == <<N, XXS, insol, DT>>
grid == <<Xedges, X, DX, LAT>>
stepvars == <<ALPHA, emiss, FIN, FOUT, FDIFF, i>>
vars == <<pc, calls, args, inputs, grid, dalpha, demiss, T, t, stepvars, steps, ret, err, hist, est>>

NoResult == <<>>
NoArgs == [N |-> 0, XXS |-> <<>>, insol |-> <<>>, DT |-> Zero]
Min(a, b) == IF a < b THEN a ELSE b

(***************************************************************************)
(* The grid, lines 39-42.                                                  *)
(***************************************************************************)
\* np.linspace(-1, 1, n+1): arange(0, n+1) * (2/n) + (-1), the last set to 1.
Linspace(n) ==
  LET step == FDiv(FromInt(2), FromInt(n))
  IN [j \in 1..(n + 1) |->
        IF j = n + 1 THEN One
        ELSE FAdd(FMul(FromInt(j - 1), step), FromInt(-1))]

Centers(E) == [j \in 1..(Len(E) - 1) |-> FMul(Half, FAdd(E[j], E[j + 1]))]

\* A split one entry late: XXS[1:N+1].
SplitAlphaShifted(ctl) == SubSeq(ctl, 2, Min(N + 1, Len(ctl)))

\* XXS[:N] and XXS[N:], lines 50-51.
SplitAlpha(ctl) == SubSeq(ctl, 1, Min(N, Len(ctl)))
SplitEmiss(ctl) == SubSeq(ctl, N + 1, Len(ctl))

\* A start from the profile the last call returned, where it fits.
InitialTCarry ==
  IF Len(ret) = N /\ N > 0
  THEN ret
  ELSE [b \in 1..N |->
          FSub(FAdd(FromInt(288), FMul(FromInt(60), FSub(One, FSq(X[b])))), FromInt(20))]

\* 288.0 + 60.0*(1 - X**2) - 20.0, line 54.
InitialT ==
  [b \in 1..N |->
     FSub(FAdd(FromInt(288), FMul(FromInt(60), FSub(One, FSq(X[b])))), FromInt(20))]

(***************************************************************************)
(* numpy broadcasting of a vector against one of length n.                 *)
(***************************************************************************)
Broadcastable(v, n) == Len(v) = n \/ Len(v) = 1 \/ n = 1
Bc(v, b) == IF Len(v) = 1 THEN v[1] ELSE v[b]

(***************************************************************************)
(* One step's quantities, lines 59-68.                                     *)
(***************************************************************************)
\* 0.354 + 0.25*(1.5*np.sin(np.radians(LAT))**2 - 0.5)
Alpha0(b) ==
  FAdd(FromRat(354, 1000),
       FMul(FromRat(25, 100),
            FSub(FMul(FromRat(15, 10), FSq(Sin(Radians(LAT[b])))), FromRat(5, 10))))

\* The logistic without the 1.0 of its denominator: the odds.
LogisticNoOne(base, d) ==
  LET logit == LAdd(LogOf(FDiv(base, FSub(One, base))), d)
  IN FDiv(One, ExpOf(LNeg(logit)))

\* The logistic with the sign of its exponent lost.
LogisticNoMinus(base, d) ==
  LET logit == LAdd(LogOf(FDiv(base, FSub(One, base))), d)
  IN FDiv(One, FAdd(One, ExpOf(logit)))

\* 1.0/(1.0 + np.exp(-(np.log(base/(1-base)) + d)))
Logistic(base, d) ==
  LET logit == LAdd(LogOf(FDiv(base, FSub(One, base))), d)
  IN FDiv(One, FAdd(One, ExpOf(LNeg(logit))))

AlbedoOf(da, b) == Logistic(Alpha0(b), Bc(da, b))
EmissOf(de, j) == Logistic(EPSILON, de[j])

FinOf(val, al) == FMul(val, FSub(One, al))
FoutOf(em, temp) == FMul(FMul(em, SIGMA), FPow4(temp))

\* The weight 1 - Xedges[j]**2 of the source's edge j (0-based).
EdgeW(j) == FSub(One, FSq(Xedges[j + 1]))

\* The diffusive term of band b (1..N; the source's i is b - 1), lines 73-78.
DiffOf(temp, b) ==
  LET dx2 == FMul(DX, DX)
  IN IF b = 1
     THEN FDiv(FMul(FMul(DIFF, EdgeW(1)), FSub(temp[b + 1], temp[b])), dx2)
     ELSE IF b = N
     THEN FDiv(FMul(FMul(FNeg(DIFF), EdgeW(N)), FSub(temp[b], temp[b - 1])), dx2)
     ELSE FDiv(FMul(DIFF,
                    FSub(FMul(EdgeW(b), FSub(temp[b + 1], temp[b])),
                         FMul(EdgeW(b - 1), FSub(temp[b], temp[b - 1])))),
               dx2)

\* T + DT*(FIN - FOUT + FDIFF), one band.
EulerOf(temp, fin, fout, fdiff) == FAdd(temp, FMul(DT, FAdd(FSub(fin, fout), fdiff)))

(***************************************************************************)
(* The call, step by step.                                                 *)
(***************************************************************************)
FreshLocals ==
  /\ Xedges' = <<>> /\ X' = <<>> /\ DX' = Zero /\ LAT' = <<>>
  /\ dalpha' = <<>> /\ demiss' = <<>> /\ T' = <<>> /\ t' = 0
  /\ ALPHA' = <<>> /\ emiss' = <<>> /\ FIN' = <<>> /\ FOUT' = <<>> /\ FDIFF' = <<>>
  /\ i' = 0

Enter(inp) ==
  /\ N' = inp.N /\ XXS' = inp.XXS /\ insol' = inp.insol /\ DT' = inp.DT
  /\ args' = inp
  /\ calls' = calls + 1
  /\ pc' = "grid"
  /\ steps' = 0
  /\ err' = "none"
  /\ FreshLocals
  /\ UNCHANGED <<ret, hist, est>>

\* The exception leaves the function: nothing is returned.  The locals are
\* shown as the call left them; the next call starts with fresh ones.
Raise(e) ==
  /\ pc' = "raised"
  /\ err' = e
  /\ hist' = Append(hist, [in |-> args, kind |-> "raised", out |-> e])
  /\ UNCHANGED <<calls, args, inputs, grid, dalpha, demiss, T, t, stepvars,
                 steps, ret, est>>

\* The first call, cell 2 line 111.
Call(Inputs) ==
  /\ pc = "idle"
  /\ \E inp \in Inputs : Enter(inp)

\* A further call, after the last has ended.
Recall(Inputs) ==
  /\ pc \in {"done", "raised"}
  /\ calls < MaxCalls
  /\ \E inp \in Inputs : Enter(inp)

\* Lines 39-42; X[1] of a one-band grid is an IndexError.
Grid ==
  /\ pc = "grid"
  /\ IF N < 2
     THEN Raise("IndexError")
     ELSE /\ Xedges' = Linspace(N)
          /\ X' = Centers(Linspace(N))
          /\ DX' = FSub(Centers(Linspace(N))[2], Centers(Linspace(N))[1])
          /\ LAT' = [b \in 1..N |-> Degrees(ArcSin(Centers(Linspace(N))[b]))]
          /\ pc' = "setup"
          /\ UNCHANGED <<calls, args, inputs, dalpha, demiss, T, t, stepvars,
                         steps, ret, err, hist, est>>

\* Lines 50-54: XXS[:N], XXS[N:] and the initial profile.
Setup ==
  /\ pc = "setup"
  /\ dalpha' = SplitAlpha(XXS)
  /\ demiss' = SplitEmiss(XXS)
  /\ T' = InitialT
  /\ pc' = "loop"
  /\ UNCHANGED <<calls, args, inputs, grid, t, stepvars, steps, ret, err, hist, est>>

\* Line 57: the next forcing value.
LoopNext ==
  /\ pc = "loop"
  /\ t < Len(insol)
  /\ t' = t + 1
  /\ pc' = "albedo"
  /\ UNCHANGED <<calls, args, inputs, grid, dalpha, demiss, T, stepvars,
                 steps, ret, err, hist, est>>

\* The albedo step with the logit added into dalpha in place: dalpha is a
\* view of XXS, so the caller's array changes.
AlbedoInPlace ==
  /\ pc = "albedo"
  /\ IF ~Broadcastable(dalpha, N)
     THEN Raise("ValueError")
     ELSE /\ ALPHA' = [b \in 1..N |-> AlbedoOf(dalpha, b)]
          /\ XXS' = [j \in 1..Len(XXS) |->
                       IF j <= Len(dalpha)
                       THEN LAdd(LogOf(FDiv(Alpha0(j), FSub(One, Alpha0(j)))), XXS[j])
                       ELSE XXS[j]]
          /\ pc' = "emiss"
          /\ UNCHANGED <<calls, args, N, insol, DT, grid, dalpha, demiss, T, t,
                         emiss, FIN, FOUT, FDIFF, i, steps, ret, err, hist, est>>

\* Lines 60-62.
Albedo ==
  /\ pc = "albedo"
  /\ IF ~Broadcastable(dalpha, N)
     THEN Raise("ValueError")
     ELSE /\ ALPHA' = [b \in 1..N |-> AlbedoOf(dalpha, b)]
          /\ pc' = "emiss"
          /\ UNCHANGED <<calls, args, inputs, grid, dalpha, demiss, T, t,
                         emiss, FIN, FOUT, FDIFF, i, steps, ret, err, hist, est>>

\* Lines 64-65.
Emissivity ==
  /\ pc = "emiss"
  /\ emiss' = [j \in 1..Len(demiss) |-> EmissOf(demiss, j)]
  /\ pc' = "flux"
  /\ UNCHANGED <<calls, args, inputs, grid, dalpha, demiss, T, t,
                 ALPHA, FIN, FOUT, FDIFF, i, steps, ret, err, hist, est>>

\* Lines 67-71.
Flux ==
  /\ pc = "flux"
  /\ IF ~Broadcastable(emiss, N)
     THEN Raise("ValueError")
     ELSE /\ FIN' = [b \in 1..N |-> FinOf(insol[t], ALPHA[b])]
          /\ FOUT' = [b \in 1..N |-> FoutOf(Bc(emiss, b), T[b])]
          /\ FDIFF' = [b \in 1..N |-> Zero]
          /\ i' = 1
          /\ pc' = "diff"
          /\ UNCHANGED <<calls, args, inputs, grid, dalpha, demiss, T, t,
                         ALPHA, emiss, steps, ret, err, hist, est>>

\* The band loop updating the temperature of a band as soon as its
\* diffusive term is known.
DiffBandInPlace ==
  /\ pc = "diff"
  /\ FDIFF' = [FDIFF EXCEPT ![i] = Zero]
  /\ T' = [T EXCEPT ![i] = FAdd(T[i], FMul(DT, DiffOf(T, i)))]
  /\ i' = i + 1
  /\ pc' = IF i = N THEN "update" ELSE "diff"
  /\ UNCHANGED <<calls, args, inputs, grid, dalpha, demiss, t,
                 ALPHA, emiss, FIN, FOUT, steps, ret, err, hist, est>>

\* Lines 72-78, one band.
DiffBand ==
  /\ pc = "diff"
  /\ FDIFF' = [FDIFF EXCEPT ![i] = DiffOf(T, i)]
  /\ i' = i + 1
  /\ pc' = IF i = N THEN "update" ELSE "diff"
  /\ UNCHANGED <<calls, args, inputs, grid, dalpha, demiss, T, t,
                 ALPHA, emiss, FIN, FOUT, steps, ret, err, hist, est>>

\* Line 80.
Update ==
  /\ pc = "update"
  /\ T' = [b \in 1..N |-> EulerOf(T[b], FIN[b], FOUT[b], FDIFF[b])]
  /\ steps' = steps + 1
  /\ pc' = "loop"
  /\ UNCHANGED <<calls, args, inputs, grid, dalpha, demiss, t, stepvars,
                 ret, err, hist, est>>

\* Line 82.
Return ==
  /\ pc = "loop"
  /\ t = Len(insol)
  /\ ret' = T
  /\ pc' = "done"
  /\ hist' = Append(hist, [in |-> args, kind |-> "returned", out |-> T])
  /\ UNCHANGED <<calls, args, inputs, grid, dalpha, demiss, T, t, stepvars,
                 steps, err, est>>

(***************************************************************************)
(* The arguments the calls are made with.                                  *)
(***************************************************************************)
SatK == MantBits + 3
BigK == MaxExp + MantBits + 3
KVals == {-BigK, -1, 0, 1, SatK, BigK}

ZeroVec(len) == [j \in 1..len |-> Ctl(0)]
OneHot(len) == {[ZeroVec(len) EXCEPT ![j] = Ctl(k)] : j \in {1, len}, k \in KVals}
Ramp(len) == [j \in 1..len |-> Ctl(j - (len \div 2))]
WrongLength(n) == {[j \in 1..len |-> Ctl(k)] : len \in {0, n + 1, 2 * n + 1}, k \in {0, 1}}
Controls(n) == OneHot(2 * n) \cup {Ramp(2 * n)} \cup WrongLength(n)

ForcingVals == {FromInt(340), FromInt(1360)}
RECURSIVE SeqsUpTo(_, _)
SeqsUpTo(S, len) ==
  IF len = 0 THEN {<<>>}
  ELSE LET shorter == SeqsUpTo(S, len - 1)
       IN shorter \cup {Append(s, v) : s \in {x \in shorter : Len(x) = len - 1}, v \in S}
Forcings == SeqsUpTo(ForcingVals, MaxSteps)
DTs == {One, FromRat(1, 8)}

AllInputs ==
  UNION {[N : {n}, XXS : Controls(n), insol : Forcings, DT : DTs] : n \in 1..MaxN}

Init ==
  /\ pc = "idle" /\ calls = 0 /\ args = NoArgs
  /\ N = 0 /\ XXS = <<>> /\ insol = <<>> /\ DT = Zero
  /\ Xedges = <<>> /\ X = <<>> /\ DX = Zero /\ LAT = <<>>
  /\ dalpha = <<>> /\ demiss = <<>> /\ T = <<>> /\ t = 0
  /\ ALPHA = <<>> /\ emiss = <<>> /\ FIN = <<>> /\ FOUT = <<>> /\ FDIFF = <<>>
  /\ i = 0 /\ steps = 0 /\ ret = NoResult /\ err = "none" /\ hist = <<>>
  /\ est = [state |-> "off"]

Body == Grid \/ Setup \/ LoopNext \/ Albedo \/ Emissivity \/ Flux \/ DiffBand \/ Update \/ Return

Next == Call(AllInputs) \/ Body

Spec == Init /\ [][Next]_vars

(***************************************************************************)
(* A caller that calls again and again, with a few arguments.              *)
(***************************************************************************)
FewInputs ==
  [N : {3}, XXS : {ZeroVec(6), [ZeroVec(6) EXCEPT ![1] = Ctl(1)], ZeroVec(7)},
   insol : {<<FromInt(340)>>, <<FromInt(1360), FromInt(340)>>}, DT : {One}]
    \cup [N : {1}, XXS : {ZeroVec(2)}, insol : {<<FromInt(340)>>}, DT : {One}]

NextCalls == Call(FewInputs) \/ Recall(FewInputs) \/ Body

SpecCalls == Init /\ [][NextCalls]_vars

(***************************************************************************)
(* estimate: the descent loop around simulate.  Its cost and gradient      *)
(* evaluations are choices from small sets.                                *)
(***************************************************************************)
Terminal == {"Converged", "MaxIterationsReached", "Diverged"}
Costs == 0..3
BlowUp == 2
Grads == {-1, 0, 1}

InitEst ==
  /\ pc = "idle" /\ calls = 0 /\ args = NoArgs
  /\ N = 0 /\ XXS = <<>> /\ insol = <<>> /\ DT = Zero
  /\ Xedges = <<>> /\ X = <<>> /\ DX = Zero /\ LAT = <<>>
  /\ dalpha = <<>> /\ demiss = <<>> /\ T = <<>> /\ t = 0
  /\ ALPHA = <<>> /\ emiss = <<>> /\ FIN = <<>> /\ FOUT = <<>> /\ FDIFF = <<>>
  /\ i = 0 /\ steps = 0 /\ ret = NoResult /\ err = "none" /\ hist = <<>>
  /\ \E m \in 0..MaxIter, tol \in 1..2, c0 \in Costs :
       est = [state |-> "Running", iter |-> 0, control |-> 0, cost |-> c0,
              history |-> <<>>, maxit |-> m, tol |-> tol]

simvars == <<pc, calls, args, inputs, grid, dalpha, demiss, T, t, stepvars, steps, ret, err, hist>>

\* An iteration that does not look at the iteration budget.
EstIterateNoBudget ==
  /\ est.state = "Running"
  /\ \E g \in Grads, c \in Costs, finite \in BOOLEAN :
       IF ~finite
       THEN est' = [est EXCEPT !.state = "Diverged", !.iter = @ + 1]
       ELSE IF c > BlowUp
       THEN est' = [est EXCEPT !.state = "Diverged", !.iter = @ + 1]
       ELSE est' = [est EXCEPT
                      !.iter = @ + 1,
                      !.control = @ - g,
                      !.cost = c,
                      !.history = Append(@, [iter |-> est.iter + 1, cost |-> c,
                                             control |-> est.control - g]),
                      !.state = IF Abs(c - est.cost) < est.tol \/ Abs(g) < est.tol
                                THEN "Converged" ELSE "Running"]
  /\ UNCHANGED simvars

\* One iteration: the gradient at the current control, the step, the cost at
\* the new control, the history record; then convergence or divergence.
EstIterate ==
  /\ est.state = "Running"
  /\ est.iter < est.maxit
  /\ \E g \in Grads, c \in Costs, finite \in BOOLEAN :
       IF ~finite
       THEN est' = [est EXCEPT !.state = "Diverged", !.iter = @ + 1]
       ELSE IF c > BlowUp
       THEN est' = [est EXCEPT !.state = "Diverged", !.iter = @ + 1]
       ELSE est' = [est EXCEPT
                      !.iter = @ + 1,
                      !.control = @ - g,
                      !.cost = c,
                      !.history = Append(@, [iter |-> est.iter + 1, cost |-> c,
                                             control |-> est.control - g]),
                      !.state = IF Abs(c - est.cost) < est.tol \/ Abs(g) < est.tol
                                THEN "Converged" ELSE "Running"]
  /\ UNCHANGED simvars

\* The iteration budget is used up and the run has not converged.
EstExhaust ==
  /\ est.state = "Running"
  /\ est.iter >= est.maxit
  /\ est' = [est EXCEPT !.state = "MaxIterationsReached"]
  /\ UNCHANGED simvars

NextEst == EstIterate \/ EstExhaust

SpecEst == InitEst /\ [][NextEst]_vars /\ WF_vars(NextEst)
(***************************************************************************)
(* Reference definitions for the properties.                               *)
(***************************************************************************)
FAbs(a) == IF a.c = "nan" THEN a ELSE [a EXCEPT !.m = Abs(a.m)]
FLeq(a, b) == a = b \/ FLess(a, b)

\* |a - b| is at most k units in the last place of b.
Within(a, b, k) ==
  /\ a.c = "fin" /\ b.c = "fin"
  /\ FLeq(FAbs(FSub(a, b)), Scale2(FromInt(k), b.e))

ZeroControl == N >= 2 /\ XXS = ZeroVec(2 * N)

\* The grid as computed is the mirror image of itself (rounding left no
\* asymmetry in it: N = 2 and N = 4 here).
GridSymmetric ==
  /\ \A j \in 1..Len(Xedges) : Xedges[j] = FNeg(Xedges[Len(Xedges) + 1 - j])
  /\ \A b \in 1..Len(X) : X[b] = FNeg(X[Len(X) + 1 - b])
WellFormed == N >= 2 /\ Len(XXS) = 2 * N

\* One explicit-Euler update of the whole profile as a function of the state
\* it starts from, the forcing value and the albedo and emissivity to use.
StepWith(temp, val, alb, em) ==
  [b \in 1..N |->
     EulerOf(temp[b], FinOf(val, alb[b]), FoutOf(em[b], temp[b]), DiffOf(temp, b))]

\* The element of a one-element set.
The(S) == CHOOSE r \in S : TRUE

RECURSIVE FoldWith(_, _, _)
FoldWith(k, alb, em) ==
  IF k = 0 THEN InitialT
  ELSE The({StepWith(prev, insol[k], alb, em) : prev \in {FoldWith(k - 1, alb, em)}})

BaselineAlbedo == [b \in 1..N |-> Alpha0(b)]
BaselineEmiss == [b \in 1..N |-> EPSILON]
ControlAlbedo == [b \in 1..N |-> AlbedoOf(dalpha, b)]
ControlEmiss == [b \in 1..N |-> EmissOf(demiss, b)]

\* The fold of the pure step over the first k forcing values.
Fold(k) == The({FoldWith(k, alb, em) : alb \in {ControlAlbedo}, em \in {ControlEmiss}})

(***************************************************************************)
(* C1.  With an all-zero control vector the profile is mirror-symmetric    *)
(* about the equator after every time step: T[b] = T[N+1-b] for every band.*)
(***************************************************************************)
C1_EquatorSymmetric ==
  (pc \in {"loop", "done"} /\ ZeroControl /\ GridSymmetric /\ steps >= 1)
    => \A b \in 1..N : T[b] = T[N + 1 - b]

(***************************************************************************)
(* C2.  A call with N < 2 ends in the grid error, a call whose control     *)
(* vector is not of length 2N ends in the dimension error, in both cases   *)
(* raised before any time step is taken, no profile being returned (the    *)
(* forcing series being non-empty, as simulate requires).                  *)
(***************************************************************************)
C2_InvalidArgumentsRaise ==
  (pc \in {"done", "raised"} /\ Len(insol) >= 1) =>
    /\ N < 2 => (pc = "raised" /\ err = "IndexError" /\ steps = 0)
    /\ (N >= 2 /\ Len(XXS) # 2 * N) => (pc = "raised" /\ err = "ValueError" /\ steps = 0)

(***************************************************************************)
(* C4.  A forward pass never changes its arguments: at every step of the   *)
(* call and on return the caller's control vector and forcing series hold  *)
(* the values they held when the call was made.                            *)
(***************************************************************************)
C4_InputsUnchanged ==
  pc # "idle" => (XXS = args.XXS /\ insol = args.insol)

C4_Witness ==
  /\ pc = "done" /\ steps = MaxSteps
  /\ WellFormed /\ XXS # ZeroVec(2 * N)
(***************************************************************************)
(* C6.  As claimed: for every control vector and every band the albedo and *)
(* the emissivity of a step lie strictly inside (0, 1).                    *)
(***************************************************************************)
C6_StrictlyInsideUnitInterval ==
  /\ \A b \in DOMAIN ALPHA : FLess(Zero, ALPHA[b]) /\ FLess(ALPHA[b], One)
  /\ \A j \in DOMAIN emiss : FLess(Zero, emiss[j]) /\ FLess(emiss[j], One)

\* A perturbation small enough for 1 + exp(-logit) not to round to 1.
Moderate(d) == Abs(d.k) <= MantBits - 2

(***************************************************************************)
(* C6, amended.  The albedo and the emissivity lie in the closed interval  *)
(* [0, 1], and strictly inside it where the band's perturbation is         *)
(* moderate; a large perturbation rounds to exactly 1 or exactly 0.        *)
(***************************************************************************)
C6_InsideClosedUnitInterval ==
  /\ \A b \in DOMAIN ALPHA :
       /\ FLeq(Zero, ALPHA[b]) /\ FLeq(ALPHA[b], One)
       /\ Moderate(Bc(dalpha, b)) => (FLess(Zero, ALPHA[b]) /\ FLess(ALPHA[b], One))
  /\ \A j \in DOMAIN emiss :
       /\ FLeq(Zero, emiss[j]) /\ FLeq(emiss[j], One)
       /\ Moderate(demiss[j]) => (FLess(Zero, emiss[j]) /\ FLess(emiss[j], One))

C6_Witness ==
  /\ pc = "diff" /\ WellFormed
  /\ \/ \E b \in DOMAIN ALPHA : ALPHA[b] = One
     \/ \E j \in DOMAIN emiss : emiss[j] = Zero

(***************************************************************************)
(* C7.  As claimed: with an all-zero control vector the albedo of every    *)
(* band equals the baseline albedo curve, the emissivity equals the        *)
(* baseline scalar, and the profile returned is the one obtained by        *)
(* integrating with the baseline albedo and emissivity used directly.      *)
(***************************************************************************)
C7_BaselineExactly ==
  ZeroControl =>
    /\ \A b \in DOMAIN ALPHA : ALPHA[b] = Alpha0(b)
    /\ \A j \in DOMAIN emiss : emiss[j] = EPSILON
    /\ pc = "done" => ret = FoldWith(Len(insol), BaselineAlbedo, BaselineEmiss)

(***************************************************************************)
(* C7, amended.  With an all-zero control vector the albedo and the        *)
(* emissivity equal their baselines up to the rounding of the logit and    *)
(* logistic operations (at most 4 units in the last place), and the        *)
(* profile returned is the one obtained by integrating with that albedo    *)
(* and emissivity.                                                         *)
(***************************************************************************)
C7_BaselineUpToRounding ==
  ZeroControl =>
    /\ \A b \in DOMAIN ALPHA : Within(ALPHA[b], Alpha0(b), 4)
    /\ \A j \in DOMAIN emiss : Within(emiss[j], EPSILON, 4)
    /\ pc = "done" => ret = FoldWith(Len(insol), ALPHA, emiss)

C7_Witness ==
  /\ ZeroControl /\ pc = "done" /\ steps >= 1
  /\ \E b \in DOMAIN ALPHA : ALPHA[b] # Alpha0(b)
  /\ \E j \in DOMAIN emiss : emiss[j] # EPSILON
  /\ ret # FoldWith(Len(insol), BaselineAlbedo, BaselineEmiss)

\* The interior formula of band b with the flux through a pole edge set to zero.
ZeroFluxDiff(temp, b) ==
  LET right == IF b = N THEN Zero ELSE FMul(EdgeW(b), FSub(temp[b + 1], temp[b]))
      left == IF b = 1 THEN Zero ELSE FMul(EdgeW(b - 1), FSub(temp[b], temp[b - 1]))
  IN FDiv(FMul(DIFF, FSub(right, left)), FMul(DX, DX))

RECURSIVE SumTo(_, _)
SumTo(f, k) == IF k = 0 THEN Zero ELSE FAdd(SumTo(f, k - 1), f[k])

RECURSIVE MaxAbsTo(_, _)
MaxAbsTo(f, k) ==
  IF k = 0 THEN Zero
  ELSE LET m == MaxAbsTo(f, k - 1)
       IN IF FLess(m, FAbs(f[k])) THEN FAbs(f[k]) ELSE m

\* a and b agree up to rounding.
Close(a, b) == a = b \/ Within(a, b, 4)

(***************************************************************************)
(* C8.  The diffusive term of band 1 and of band N is the interior formula *)
(* with the flux through the pole edge set to zero, and the diffusive term *)
(* sums to zero over the bands (up to rounding: within an eighth of the    *)
(* largest term), in every time step.                                      *)
(***************************************************************************)
C8_ZeroFluxConservation ==
  (pc = "update" /\ WellFormed) =>
    /\ Close(FDIFF[1], ZeroFluxDiff(T, 1))
    /\ Close(FDIFF[N], ZeroFluxDiff(T, N))
    /\ FLeq(FAbs(SumTo(FDIFF, N)), Scale2(MaxAbsTo(FDIFF, N), -3))

(***************************************************************************)
(* C9.  The call is a left fold of one pure step over the forcing series:  *)
(* one Euler update per forcing value, in series order, every band of an   *)
(* update computed from the temperature state the update started from.     *)
(***************************************************************************)
C9_LeftFold ==
  WellFormed =>
    /\ pc = "loop" => (steps = t /\ T = Fold(t))
    /\ pc \in {"albedo", "emiss", "flux", "diff", "update"} => steps = t - 1
    /\ pc = "done" => (steps = Len(insol) /\ ret = Fold(Len(insol)))

C9_Witness ==
  /\ WellFormed /\ pc = "done" /\ steps = 2
  /\ insol[1] # insol[2]
  /\ \E b \in 1..(N - 1) : ret[b] # ret[b + 1]

\* The control vector with every entry but entry p set to k*ln 2.
Others(ctl, p, k) == [j \in 1..Len(ctl) |-> IF j = p THEN ctl[j] ELSE Ctl(k)]
\* The control vector with the entries lo..hi set to k*ln 2.
Block(ctl, lo, hi, k) == [j \in 1..Len(ctl) |-> IF j >= lo /\ j <= hi THEN Ctl(k) ELSE ctl[j]]

(***************************************************************************)
(* C10.  The albedo of band b depends on control entry b and on no other,  *)
(* the emissivity of band b on entry N + b and on no other: the values of  *)
(* the step are those any control vector with the same entry gives, and    *)
(* changing the emissivity block leaves every albedo as it is, and the     *)
(* albedo block every emissivity.                                          *)
(***************************************************************************)
C10_OneEntryPerBand ==
  (WellFormed /\ pc = "flux") =>
    \A k \in {-1, BigK} :
      /\ \A b \in 1..N :
           /\ AlbedoOf(SplitAlpha(Others(XXS, b, k)), b) = ALPHA[b]
           /\ EmissOf(SplitEmiss(Others(XXS, N + b, k)), b) = emiss[b]
      /\ [b \in 1..N |-> AlbedoOf(SplitAlpha(Block(XXS, N + 1, 2 * N, k)), b)] = ALPHA
      /\ [b \in 1..N |-> EmissOf(SplitEmiss(Block(XXS, 1, N, k)), b)] = emiss

C10_Witness ==
  /\ WellFormed /\ pc = "flux" /\ t = MaxSteps
  /\ \E b \in 1..N : XXS[b] # Ctl(0) /\ ALPHA[b] # Alpha0(b)
  /\ \E b \in 1..N : XXS[N + b] # Ctl(0)
(***************************************************************************)
(* C3.  Any two finished calls with equal arguments, whatever was          *)
(* simulated between them, ended alike: the same profile returned, or the  *)
(* same error.                                                             *)
(***************************************************************************)
C3_Deterministic ==
  \A p, q \in 1..Len(hist) :
    hist[p].in = hist[q].in => (hist[p].kind = hist[q].kind /\ hist[p].out = hist[q].out)

C3_Witness ==
  /\ Len(hist) = 3
  /\ hist[1].in = hist[3].in /\ hist[2].in # hist[1].in
  /\ hist[1].kind = "returned" /\ hist[2].kind = "returned"
  /\ Len(hist[1].in.insol) = 2
  /\ hist[2].out # hist[1].out

(***************************************************************************)
(* C5.  A run of estimate starts in Running, makes at most max_iterations  *)
(* iterations, ends in one of Converged, MaxIterationsReached or Diverged, *)
(* and once it has ended its state, control vector and history no longer   *)
(* change.                                                                 *)
(***************************************************************************)
C5_RunEndsOnce ==
  /\ est.state = "Running"
  /\ [](est.state \in Terminal \cup {"Running"} /\ est.iter <= est.maxit)
  /\ <>(est.state \in Terminal)
  /\ [][est.state \in Terminal => est' = est]_vars

C5_Witness ==
  /\ est.state = "MaxIterationsReached"
  /\ est.iter = MaxIter
  /\ Len(est.history) = MaxIter
=============================================================================
